---- MODULE Spec2Model ----
(***************************************************************************)
(* Model of the log-viewer provisioning script                             *)
(* (python/scripts/bundle-log-viewer.py) and of the run-time wrapper       *)
(* (python/src/smooai_logger/cli/log_viewer.py).                           *)
(*                                                                         *)
(* Host strings are sequences of one-character strings, so that lower()    *)
(* is computed character by character.  Paths are sequences of path        *)
(* components.  The filesystem is a function from the paths of the regular *)
(* files that exist to their content and executable mark, plus the set of  *)
(* directories that exist.                                                 *)
(***************************************************************************)
EXTENDS Integers, Sequences, FiniteSets, TLC

\* ------------------------------------------------------------------ bounds

\* Number of program invocations (provisioning runs and wrapper runs) in a behaviour.
MaxRuns == 2
\* Length in bytes of a complete artifact (a response body, a built binary).
MaxBody == 2

\* ------------------------------------------------------- values and strings

None == "None"

\* str.lower() on the characters the host strings use.
lower_char(c) ==
    CASE c = "A" -> "a"
      [] c = "B" -> "b"
      [] c = "D" -> "d"
      [] c = "F" -> "f"
      [] c = "L" -> "l"
      [] c = "M" -> "m"
      [] c = "R" -> "r"
      [] c = "S" -> "s"
      [] c = "W" -> "w"
      [] OTHER -> c

lower(s) == [i \in 1..Len(s) |-> lower_char(s[i])]

\* What platform.system() and platform.machine() can report on a host.
RawSystems ==
    { <<"D","a","r","w","i","n">>,
      <<"L","i","n","u","x">>,
      <<"W","i","n","d","o","w","s">>,
      <<"F","r","e","e","B","S","D">> }

RawMachines ==
    { <<"x","8","6","_","6","4">>,
      <<"A","M","D","6","4">>,
      <<"a","r","m","6","4">>,
      <<"a","a","r","c","h","6","4">>,
      <<"i","3","8","6">> }

\* A variant of the lookup that falls back to the first value of the table.
dict_get_default(d, k) ==
    IF k \in DOMAIN d THEN d[k] ELSE d[CHOOSE x \in DOMAIN d : TRUE]

\* dict.get(key): the value, or None when the key is absent.
dict_get(d, k) == IF k \in DOMAIN d THEN d[k] ELSE None

\* Python truthiness of an optional string.
truthy(v) == v # None /\ v # ""

\* The script's module-level lookup tables.
PLATFORM_MAPPING ==
    (<<"d","a","r","w","i","n">> :> "darwin")
    @@ (<<"l","i","n","u","x">> :> "linux")
    @@ (<<"w","i","n","d","o","w","s">> :> "win32")

ARCH_MAPPING ==
    (<<"x","8","6","_","6","4">> :> "x64")
    @@ (<<"a","m","d","6","4">> :> "x64")
    @@ (<<"a","r","m","6","4">> :> "arm64")
    @@ (<<"a","a","r","c","h","6","4">> :> "arm64")

\* The wrapper's own copies of the tables, local to find_binary.
platform_mapping ==
    (<<"d","a","r","w","i","n">> :> "darwin")
    @@ (<<"l","i","n","u","x">> :> "linux")
    @@ (<<"w","i","n","d","o","w","s">> :> "win32")

arch_mapping ==
    (<<"x","8","6","_","6","4">> :> "x64")
    @@ (<<"a","m","d","6","4">> :> "x64")
    @@ (<<"a","r","m","6","4">> :> "arm64")
    @@ (<<"a","a","r","c","h","6","4">> :> "arm64")

\* ------------------------------------------------------------------- paths

Parent(p) == SubSeq(p, 1, Len(p) - 1)
Join(p, name) == Append(p, name)

\* Path(__file__) of the two programs in the repository layout.
BundleScriptFile == <<"root", "python", "scripts", "bundle-log-viewer.py">>
WrapperFile == <<"root", "python", "src", "smooai_logger", "cli", "log_viewer.py">>

\* bundle-log-viewer.py main: python_dir, root_dir.
python_dir == Parent(Parent(BundleScriptFile))
root_dir == Parent(python_dir)

\* "smooai-log-viewer.exe" if mapped_platform == "win32" else "smooai-log-viewer"
binary_name(mp) == IF mp = "win32" THEN "smooai-log-viewer.exe" ELSE "smooai-log-viewer"

\* dest_dir and dest_binary of bundle-log-viewer.py main.
dest_dir(mp, ma) == Join(Join(python_dir, "log-viewer"), mp \o "-" \o ma)
dest_binary(mp, ma) == Join(dest_dir(mp, ma), binary_name(mp))

manifest_path == Join(Join(root_dir, "log-viewer"), "Cargo.toml")
source_binary(mp) ==
    Join(Join(Join(Join(root_dir, "log-viewer"), "target"), "release"), binary_name(mp))

\* A variant of package_dir with one .parent fewer.
package_dir_short == Parent(Parent(Parent(WrapperFile)))

\* A variant of binary_path without the "log-viewer" directory.
binary_path_of_flat(mp, ma) ==
    Join(Join(Parent(Parent(Parent(Parent(WrapperFile)))), mp \o "-" \o ma), binary_name(mp))

\* find_binary: package_dir and binary_path.
package_dir == Parent(Parent(Parent(Parent(WrapperFile))))
binary_path_of(mp, ma) ==
    Join(Join(Join(package_dir, "log-viewer"), mp \o "-" \o ma), binary_name(mp))

\* ----------------------------------------------------------- environment

\* Complete artifacts: what the release host serves, and what cargo builds.
Bytes(b) == [i \in 1..MaxBody |-> b]
RemoteBodies == { Bytes("r"), Bytes("s") }
BuiltBinary == Bytes("c")

\* The proper prefixes of data: what a write that fails part-way leaves.
ProperPrefixes(data) == { SubSeq(data, 1, k) : k \in 0..(Len(data) - 1) }

\* Exit codes of "cargo --version" and of "cargo build"; 101 is cargo's own
\* failure code.  A build killed by signal n has the returncode -n.
ProbeCodes == {0, 1}
BuildCodes == {0, 1, 101}
BuildSignals == {9}
BuildReturncodes == BuildCodes \cup { 0 - n : n \in BuildSignals }

\* Exit codes of the child, and the signals that can terminate it.
ChildCodes == {0, 1, 3, 130}
ChildSignals == {2, 9}

\* sys.exit(n): the status the parent of the process observes.
ExitStatus(n) == n % 256


\* ------------------------------------------------------------------- state

VARIABLES
    raw_system,   \* platform.system() of the host
    raw_machine,  \* platform.machine() of the host
    files,        \* path -> [content, exec] of the regular files that exist
    dirs,         \* the directories that exist
    runs,         \* program invocations started so far
    bundle,       \* the provisioning run: position, locals, streams, exit status,
                  \* the calls it made, the files as they were when it started,
                  \* its number among the invocations
    viewer,       \* the wrapper run: position, locals, streams, exit status,
                  \* what its spawns found, where an interrupt reached it,
                  \* its number among the invocations
    child,        \* the process the wrapper spawned
    sigint        \* an interrupt was delivered to the wrapper and is not yet raised

vars == <<raw_system, raw_machine, files, dirs, runs, bundle, viewer, child, sigint>>
hostvars == <<raw_system, raw_machine>>
fsvars == <<files, dirs>>
wrappervars == <<viewer, child, sigint>>

\* Path.exists(): a file or a directory is there.
exists(p) == p \in DOMAIN files \/ p \in dirs

File(content, exec) == [content |-> content, exec |-> exec]

\* A file opened for writing keeps its mode when it exists and is created
\* without the executable mark otherwise.
ModeAfterOpen(p) == IF p \in DOMAIN files THEN files[p].exec ELSE FALSE

\* files with p holding f (created or replaced).
Put(p, f) == [q \in DOMAIN files \cup {p} |-> IF q = p THEN f ELSE files[q]]

BundleIdle ==
    [pc |-> "idle", mapped_platform |-> None, mapped_arch |-> None, data |-> <<>>,
     downloaded |-> None, exc |-> None, probe |-> None, returncode |-> 0, exit |-> 0,
     stdout |-> <<>>, stderr |-> <<>>, calls |-> <<>>, files0 |-> <<>>, run |-> 0]

ViewerIdle ==
    [pc |-> "idle", mapped_platform |-> None, mapped_arch |-> None, binary_path |-> <<>>,
     exc |-> <<>>, interrupted_at |-> None, child_at_interrupt |-> None,
     returncode |-> 0, exit |-> 0,
     stderr |-> <<>>, spawned |-> <<>>, run |-> 0]

NoChild == [state |-> "none", code |-> 0]

\* No program runs; the manifest is part of the checkout or is not.
Init ==
    /\ raw_system \in RawSystems
    /\ raw_machine \in RawMachines
    /\ files \in { <<>>, (manifest_path :> File(<<"m">>, FALSE)) }
    /\ dirs = {}
    /\ runs = 0
    /\ bundle = BundleIdle
    /\ viewer = ViewerIdle
    /\ child = NoChild
    /\ sigint = FALSE

NoProgramRuns == bundle.pc \in {"idle", "done"} /\ viewer.pc \in {"idle", "done"}

\* ------------------------------------------- bundle-log-viewer.py: main

\* The script is started.
StartBundle ==
    /\ NoProgramRuns
    /\ runs < MaxRuns
    /\ runs' = runs + 1
    /\ bundle' = [BundleIdle EXCEPT !.pc = "identify", !.files0 = files, !.run = runs + 1]
    /\ UNCHANGED <<hostvars, fsvars, wrappervars>>

\* The process ends with status n.
BundleExit(r, n) == [r EXCEPT !.pc = "done", !.exit = ExitStatus(n)]

\* An exception nobody catches: traceback on the error stream, status 1.
BundleCrash(r, e) ==
    BundleExit([r EXCEPT !.stderr = Append(@, <<"Traceback", e>>)], 1)

\* main, lines 45-57: the identifier, or exit 1 on an unsupported platform.
b_Identify ==
    /\ bundle.pc = "identify"
    /\ LET current_platform == lower(raw_system)
           current_arch == lower(raw_machine)
           mapped_platform == dict_get(PLATFORM_MAPPING, current_platform)
           mapped_arch == dict_get(ARCH_MAPPING, current_arch)
       IN  IF ~truthy(mapped_platform) \/ ~truthy(mapped_arch)
           THEN bundle' = BundleExit(
                    [bundle EXCEPT !.stderr = Append(@,
                        <<"unsupported platform", current_platform, current_arch>>)], 1)
           ELSE bundle' = [bundle EXCEPT !.pc = "urlopen",
                                         !.mapped_platform = mapped_platform,
                                         !.mapped_arch = mapped_arch]
    /\ UNCHANGED <<hostvars, fsvars, runs, wrappervars>>

Dest == dest_binary(bundle.mapped_platform, bundle.mapped_arch)

\* try_download, lines 21-28: the GET; the whole body is read, or an
\* exception (network error, HTTP error status, timeout) is raised.
td_Urlopen ==
    /\ bundle.pc = "urlopen"
    /\ \/ \E body \in RemoteBodies :
            bundle' = [bundle EXCEPT !.pc = "td_mkdir", !.data = body,
                                     !.calls = Append(@, "urlopen"),
                                     !.stdout = Append(@, <<"attempting to download">>)]
       \/ \E e \in {"URLError", "HTTPError", "timeout"} :
            bundle' = [bundle EXCEPT !.pc = "td_except", !.exc = e,
                                     !.calls = Append(@, "urlopen"),
                                     !.stdout = Append(@, <<"attempting to download">>)]
    /\ UNCHANGED <<hostvars, fsvars, runs, wrappervars>>

\* try_download, line 30: dest_binary.parent.mkdir(parents=True, exist_ok=True).
td_Mkdir ==
    /\ bundle.pc = "td_mkdir"
    /\ \/ /\ bundle' = [bundle EXCEPT !.pc = "td_write", !.calls = Append(@, "mkdir")]
          /\ dirs' = dirs \cup {Parent(Dest)}
       \/ /\ bundle' = [bundle EXCEPT !.pc = "td_except", !.exc = "mkdir OSError",
                                      !.calls = Append(@, "mkdir")]
          /\ dirs' = dirs
    /\ UNCHANGED <<hostvars, files, runs, wrappervars>>

\* try_download, line 31: dest_binary.write_bytes(data) opens the destination
\* itself for writing, truncates it and writes.  The open can fail (nothing
\* changes); the write can fail after any number of bytes.
td_WriteBytes ==
    /\ bundle.pc = "td_write"
    /\ \/ /\ bundle' = [bundle EXCEPT !.pc = "td_chmod", !.calls = Append(@, "write_bytes")]
          /\ files' = Put(Dest, File(bundle.data, ModeAfterOpen(Dest)))
       \/ /\ bundle' = [bundle EXCEPT !.pc = "td_except", !.exc = "open OSError",
                                      !.calls = Append(@, "write_bytes")]
          /\ files' = files
       \/ \E part \in ProperPrefixes(bundle.data) :
          /\ bundle' = [bundle EXCEPT !.pc = "td_except", !.exc = "write OSError",
                                      !.calls = Append(@, "write_bytes")]
          /\ files' = Put(Dest, File(part, ModeAfterOpen(Dest)))
    /\ UNCHANGED <<hostvars, dirs, runs, wrappervars>>

\* A variant of the last step that returns True without the chmod.
td_Chmod_skipped ==
    /\ bundle.pc = "td_chmod"
    /\ bundle' = [bundle EXCEPT !.pc = "td_returned", !.downloaded = "True"]
    /\ UNCHANGED <<hostvars, fsvars, runs, wrappervars>>

\* try_download, lines 32-34: chmod(0o755) unless win32, then return True.
td_Chmod ==
    /\ bundle.pc = "td_chmod"
    /\ IF bundle.mapped_platform # "win32"
       THEN \/ /\ bundle' = [bundle EXCEPT !.pc = "td_returned", !.downloaded = "True",
                                           !.calls = Append(@, "chmod")]
               /\ files' = Put(Dest, File(files[Dest].content, TRUE))
            \/ /\ bundle' = [bundle EXCEPT !.pc = "td_except", !.exc = "chmod OSError",
                                           !.calls = Append(@, "chmod")]
               /\ files' = files
       ELSE /\ bundle' = [bundle EXCEPT !.pc = "td_returned", !.downloaded = "True"]
            /\ files' = files
    /\ UNCHANGED <<hostvars, dirs, runs, wrappervars>>

\* A variant of the handler that lets the exception escape.
td_Except_reraise ==
    /\ bundle.pc = "td_except"
    /\ bundle' = BundleCrash([bundle EXCEPT !.exc = None], bundle.exc)
    /\ UNCHANGED <<hostvars, fsvars, runs, wrappervars>>

\* try_download, lines 35-37: except Exception: log, return False.
td_Except ==
    /\ bundle.pc = "td_except"
    /\ bundle' = [bundle EXCEPT !.pc = "td_returned", !.downloaded = "False",
                                !.exc = None,
                                !.stderr = Append(@, <<"download failed", bundle.exc>>)]
    /\ UNCHANGED <<hostvars, fsvars, runs, wrappervars>>

\* A variant of the branch that does not return after a successful download.
b_DownloadReturned_fallthrough ==
    /\ bundle.pc = "td_returned"
    /\ bundle' = [bundle EXCEPT !.pc = "manifest"]
    /\ UNCHANGED <<hostvars, fsvars, runs, wrappervars>>

\* main, lines 60-62: a successful download ends the run.
b_DownloadReturned ==
    /\ bundle.pc = "td_returned"
    /\ IF bundle.downloaded = "True"
       THEN bundle' = BundleExit(
                [bundle EXCEPT !.stdout = Append(@, <<"downloaded pre-built binary to", Dest>>)], 0)
       ELSE bundle' = [bundle EXCEPT !.pc = "manifest"]
    /\ UNCHANGED <<hostvars, fsvars, runs, wrappervars>>

\* A variant of the check that goes on to the probe without a manifest.
b_ManifestCheck_noskip ==
    /\ bundle.pc = "manifest"
    /\ bundle' = [bundle EXCEPT !.pc = "probe", !.calls = Append(@, "manifest exists")]
    /\ UNCHANGED <<hostvars, fsvars, runs, wrappervars>>

\* main, lines 65-68: no manifest, no build: skip.
b_ManifestCheck ==
    /\ bundle.pc = "manifest"
    /\ IF ~exists(manifest_path)
       THEN bundle' = BundleExit(
                [bundle EXCEPT !.calls = Append(@, "manifest exists"),
                               !.stderr = Append(@, <<"manifest not found, skipping">>)], 0)
       ELSE bundle' = [bundle EXCEPT !.pc = "probe", !.calls = Append(@, "manifest exists")]
    /\ UNCHANGED <<hostvars, fsvars, runs, wrappervars>>

\* main, lines 70-76: "cargo --version".  A non-zero exit and
\* FileNotFoundError are caught and skip the build; any other OSError of the
\* spawn (PermissionError for a cargo on PATH that may not be executed, a
\* failed fork) is not caught.
b_Probe ==
    /\ bundle.pc = "probe"
    /\ \/ \E rc \in ProbeCodes :
            IF rc # 0
            THEN bundle' = BundleExit(
                     [bundle EXCEPT !.calls = Append(@, "cargo --version"),
                                    !.probe = "nonzero",
                                    !.stderr = Append(@, <<"cargo not detected, skipping">>)], 0)
            ELSE bundle' = [bundle EXCEPT !.pc = "build", !.probe = "zero",
                                          !.calls = Append(@, "cargo --version")]
       \/ bundle' = BundleExit(
              [bundle EXCEPT !.calls = Append(@, "cargo --version"),
                             !.probe = "FileNotFoundError",
                             !.stderr = Append(@, <<"cargo not detected, skipping">>)], 0)
       \/ \E e \in {"PermissionError", "OSError"} :
            bundle' = BundleCrash([bundle EXCEPT !.calls = Append(@, "cargo --version"),
                                                 !.probe = e], e)
    /\ UNCHANGED <<hostvars, fsvars, runs, wrappervars>>

\* A variant of the build step that exits 1 on every build failure.
BuildFailureStatus_one(rc) == 1

\* main, line 83: sys.exit(build_result.returncode).
BuildFailureStatus(rc) == rc

\* main, lines 78-83: "cargo build --release".  A successful build leaves
\* its output in target/release, under the expected name or not.
b_Build ==
    /\ bundle.pc = "build"
    /\ \E rc \in BuildReturncodes :
         IF rc # 0
         THEN /\ bundle' = BundleExit(
                     [bundle EXCEPT !.calls = Append(@, "cargo build"),
                                    !.returncode = rc,
                                    !.stdout = Append(@, <<"building from source">>),
                                    !.stderr = Append(@, <<"cargo build failed">>)],
                     BuildFailureStatus(rc))
              /\ files' = files
         ELSE /\ bundle' = [bundle EXCEPT !.pc = "check_output",
                                          !.calls = Append(@, "cargo build"),
                                          !.returncode = rc,
                                          !.stdout = Append(@, <<"building from source">>)]
              /\ \/ files' = Put(source_binary(bundle.mapped_platform), File(BuiltBinary, TRUE))
                 \/ files' = files
    /\ UNCHANGED <<hostvars, dirs, runs, wrappervars>>

\* main, lines 85-88: the expected output must exist.
b_CheckOutput ==
    /\ bundle.pc = "check_output"
    /\ LET src == source_binary(bundle.mapped_platform)
       IN  IF ~exists(src)
           THEN bundle' = BundleExit(
                    [bundle EXCEPT !.calls = Append(@, "source exists"),
                                   !.stderr = Append(@, <<"expected binary at", src,
                                                          "but none was found">>)], 1)
           ELSE bundle' = [bundle EXCEPT !.pc = "copy_mkdir",
                                         !.calls = Append(@, "source exists")]
    /\ UNCHANGED <<hostvars, fsvars, runs, wrappervars>>

\* main, line 90: dest_dir.mkdir(parents=True, exist_ok=True); a failure is
\* not caught.
b_CopyMkdir ==
    /\ bundle.pc = "copy_mkdir"
    /\ \/ /\ bundle' = [bundle EXCEPT !.pc = "copy", !.calls = Append(@, "mkdir")]
          /\ dirs' = dirs \cup {dest_dir(bundle.mapped_platform, bundle.mapped_arch)}
       \/ /\ bundle' = BundleCrash([bundle EXCEPT !.calls = Append(@, "mkdir")], "OSError")
          /\ dirs' = dirs
    /\ UNCHANGED <<hostvars, files, runs, wrappervars>>

\* main, line 91: shutil.copy2 writes the destination itself (content, then
\* the source's mode); a failure is not caught.
b_Copy2 ==
    /\ bundle.pc = "copy"
    /\ LET src == files[source_binary(bundle.mapped_platform)]
       IN  \/ /\ bundle' = [bundle EXCEPT !.pc = "copy_chmod", !.calls = Append(@, "copy2")]
              /\ files' = Put(Dest, File(src.content, src.exec))
           \/ /\ bundle' = BundleCrash([bundle EXCEPT !.calls = Append(@, "copy2")], "OSError")
              /\ files' = files
           \/ \E part \in ProperPrefixes(src.content) :
              /\ bundle' = BundleCrash([bundle EXCEPT !.calls = Append(@, "copy2")], "OSError")
              /\ files' = Put(Dest, File(part, ModeAfterOpen(Dest)))
    /\ UNCHANGED <<hostvars, dirs, runs, wrappervars>>

\* main, lines 92-95: chmod(0o755) unless win32, then the closing message.
b_CopyChmod ==
    /\ bundle.pc = "copy_chmod"
    /\ IF bundle.mapped_platform # "win32"
       THEN \/ /\ bundle' = BundleExit(
                      [bundle EXCEPT !.calls = Append(@, "chmod"),
                                     !.stdout = Append(@, <<"built and packaged", Dest>>)], 0)
               /\ files' = Put(Dest, File(files[Dest].content, TRUE))
            \/ /\ bundle' = BundleCrash([bundle EXCEPT !.calls = Append(@, "chmod")], "OSError")
               /\ files' = files
       ELSE /\ bundle' = BundleExit(
                   [bundle EXCEPT !.stdout = Append(@, <<"built and packaged", Dest>>)], 0)
            /\ files' = files
    /\ UNCHANGED <<hostvars, dirs, runs, wrappervars>>

BundleNext ==
    \/ StartBundle
    \/ b_Identify
    \/ td_Urlopen
    \/ td_Mkdir
    \/ td_WriteBytes
    \/ td_Chmod
    \/ td_Except
    \/ b_DownloadReturned
    \/ b_ManifestCheck
    \/ b_Probe
    \/ b_Build
    \/ b_CheckOutput
    \/ b_CopyMkdir
    \/ b_Copy2
    \/ b_CopyChmod

\* ------------------------------------------------- log_viewer.py: main

\* The positions inside the try block of main.
TryBody == {"find_binary", "spawn", "wait", "sys_exit"}

\* The wrapper is started.
StartViewer ==
    /\ NoProgramRuns
    /\ runs < MaxRuns
    /\ runs' = runs + 1
    /\ viewer' = [ViewerIdle EXCEPT !.pc = "find_binary", !.run = runs + 1]
    /\ child' = NoChild
    /\ sigint' = FALSE
    /\ UNCHANGED <<hostvars, fsvars, bundle>>

\* The process ends with status n.
ViewerExit(r, n) == [r EXCEPT !.pc = "done", !.exit = ExitStatus(n)]

\* raise e inside the try block.
ViewerRaise(r, e) == [r EXCEPT !.pc = "except", !.exc = e]

\* find_binary, lines 12-40: the path of the binary, or RuntimeError for an
\* unsupported platform or a path at which nothing exists.
w_FindBinary ==
    /\ viewer.pc = "find_binary"
    /\ ~sigint
    /\ LET current_platform == lower(raw_system)
           current_arch == lower(raw_machine)
           mapped_platform == dict_get(platform_mapping, current_platform)
           mapped_arch == dict_get(arch_mapping, current_arch)
           binary_path == binary_path_of(mapped_platform, mapped_arch)
       IN  IF ~truthy(mapped_platform) \/ ~truthy(mapped_arch)
           THEN viewer' = ViewerRaise(viewer,
                    <<"RuntimeError", <<"Unsupported platform", current_platform, current_arch>>>>)
           ELSE IF ~exists(binary_path)
           THEN viewer' = ViewerRaise(
                    [viewer EXCEPT !.mapped_platform = mapped_platform,
                                   !.mapped_arch = mapped_arch],
                    <<"RuntimeError", <<"No binary found", mapped_platform, mapped_arch,
                                        binary_path, "Ensure Rust is installed">>>>)
           ELSE viewer' = [viewer EXCEPT !.pc = "spawn",
                                         !.mapped_platform = mapped_platform,
                                         !.mapped_arch = mapped_arch,
                                         !.binary_path = binary_path]
    /\ UNCHANGED <<hostvars, fsvars, runs, bundle, child, sigint>>

\* What the spawn finds at the path it is given.
SpawnTarget(p) ==
    [path |-> p,
     present |-> p \in DOMAIN files,
     exec |-> IF p \in DOMAIN files THEN files[p].exec ELSE FALSE]

\* main, line 49, the start of subprocess.run: the binary is executed.  A
\* file without the executable mark cannot be executed (PermissionError,
\* except on win32, which has no such mark); the spawn of an executable file
\* can still fail in the OS (exec format error, no resources).
w_Spawn ==
    /\ viewer.pc = "spawn"
    /\ ~sigint
    /\ LET t == SpawnTarget(viewer.binary_path)
           r == [viewer EXCEPT !.spawned = Append(@, t)]
       IN  IF ~t.present
           THEN /\ viewer' = ViewerRaise(r, <<"FileNotFoundError", <<t.path>>>>)
                /\ child' = child
           ELSE IF ~t.exec /\ viewer.mapped_platform # "win32"
           THEN /\ viewer' = ViewerRaise(r, <<"PermissionError", <<t.path>>>>)
                /\ child' = child
           ELSE \/ /\ viewer' = [r EXCEPT !.pc = "wait"]
                   /\ child' = [state |-> "running", code |-> 0]
                \/ /\ viewer' = ViewerRaise(r, <<"OSError", <<t.path>>>>)
                   /\ child' = child
    /\ UNCHANGED <<hostvars, fsvars, runs, bundle, sigint>>

\* The child ends on its own: it exits with a code, or a signal kills it.
ChildEnds ==
    /\ viewer.pc = "wait"
    /\ child.state = "running"
    /\ \/ \E c \in ChildCodes : child' = [state |-> "exited", code |-> c]
       \/ \E n \in ChildSignals : child' = [state |-> "signaled", code |-> n]
    /\ UNCHANGED <<hostvars, fsvars, runs, bundle, viewer, sigint>>

\* Popen.returncode: the exit code, or minus the signal number.
returncode_of(ch) == IF ch.state = "signaled" THEN 0 - ch.code ELSE ch.code

\* main, line 49, the end of subprocess.run: the wait returns once the child
\* has terminated.
w_WaitReturns ==
    /\ viewer.pc = "wait"
    /\ ~sigint
    /\ child.state \in {"exited", "signaled"}
    /\ viewer' = [viewer EXCEPT !.pc = "sys_exit", !.returncode = returncode_of(child)]
    /\ UNCHANGED <<hostvars, fsvars, runs, bundle, child, sigint>>

\* A variant of the exit that reports only success or failure.
w_SysExit_flattened ==
    /\ viewer.pc = "sys_exit"
    /\ ~sigint
    /\ viewer' = ViewerExit(viewer, IF viewer.returncode = 0 THEN 0 ELSE 1)
    /\ UNCHANGED <<hostvars, fsvars, runs, bundle, child, sigint>>

\* main, line 51: sys.exit(result.returncode).
w_SysExit ==
    /\ viewer.pc = "sys_exit"
    /\ ~sigint
    /\ viewer' = ViewerExit(viewer, viewer.returncode)
    /\ UNCHANGED <<hostvars, fsvars, runs, bundle, child, sigint>>

\* SIGINT is delivered to the wrapper while it is inside the try block.
Interrupt ==
    /\ viewer.pc \in TryBody
    /\ ~sigint
    /\ sigint' = TRUE
    /\ viewer' = [viewer EXCEPT !.interrupted_at = viewer.pc,
                                !.child_at_interrupt = child.state]
    /\ UNCHANGED <<hostvars, fsvars, runs, bundle, child>>

\* The interpreter raises KeyboardInterrupt at the next step.  Raised inside
\* subprocess.run, it makes run kill a child that still runs and reap it;
\* the child may have ended on the same interrupt before that.
w_KeyboardInterrupt ==
    /\ viewer.pc \in TryBody
    /\ sigint
    /\ sigint' = FALSE
    /\ viewer' = ViewerRaise(viewer, <<"KeyboardInterrupt", <<>>>>)
    /\ IF child.state = "running"
       THEN \/ \E c \in ChildCodes : child' = [state |-> "exited", code |-> c]
            \/ \E n \in ChildSignals : child' = [state |-> "signaled", code |-> n]
       ELSE child' = child
    /\ UNCHANGED <<hostvars, fsvars, runs, bundle>>

\* A variant of the handler with the generic failure status.
w_ExceptKeyboardInterrupt_one ==
    /\ viewer.pc = "except"
    /\ viewer.exc[1] = "KeyboardInterrupt"
    /\ viewer' = ViewerExit(viewer, 1)
    /\ UNCHANGED <<hostvars, fsvars, runs, bundle, child, sigint>>

\* main, lines 53-54: except KeyboardInterrupt: sys.exit(130).
w_ExceptKeyboardInterrupt ==
    /\ viewer.pc = "except"
    /\ viewer.exc[1] = "KeyboardInterrupt"
    /\ viewer' = ViewerExit(viewer, 130)
    /\ UNCHANGED <<hostvars, fsvars, runs, bundle, child, sigint>>

\* main, lines 55-57: except RuntimeError: the message, status 1.
w_ExceptRuntimeError ==
    /\ viewer.pc = "except"
    /\ viewer.exc[1] = "RuntimeError"
    /\ viewer' = ViewerExit([viewer EXCEPT !.stderr = Append(@, viewer.exc[2])], 1)
    /\ UNCHANGED <<hostvars, fsvars, runs, bundle, child, sigint>>

\* A variant of the handler that exits without a message.
w_ExceptException_silent ==
    /\ viewer.pc = "except"
    /\ viewer.exc[1] \notin {"KeyboardInterrupt", "RuntimeError"}
    /\ viewer' = ViewerExit(viewer, 1)
    /\ UNCHANGED <<hostvars, fsvars, runs, bundle, child, sigint>>

\* main, lines 58-60: except Exception: the launch failure message, status 1.
w_ExceptException ==
    /\ viewer.pc = "except"
    /\ viewer.exc[1] \notin {"KeyboardInterrupt", "RuntimeError"}
    /\ viewer' = ViewerExit(
           [viewer EXCEPT !.stderr = Append(@,
               <<"Failed to launch the log viewer binary", viewer.exc>>)], 1)
    /\ UNCHANGED <<hostvars, fsvars, runs, bundle, child, sigint>>

ViewerNext ==
    \/ StartViewer
    \/ w_FindBinary
    \/ w_Spawn
    \/ ChildEnds
    \/ w_WaitReturns
    \/ w_SysExit
    \/ Interrupt
    \/ w_KeyboardInterrupt
    \/ w_ExceptKeyboardInterrupt
    \/ w_ExceptRuntimeError
    \/ w_ExceptException

Next == BundleNext \/ ViewerNext

Spec == Init /\ [][Next]_vars

\* ------------------------------------------------------------ properties

\* The provisioning run made the call.
Called(name) == \E i \in DOMAIN bundle.calls : bundle.calls[i] = name

\* The provisioning run wrote a message of this kind on the error stream.
ErrLogged(kind) == \E i \in DOMAIN bundle.stderr : bundle.stderr[i][1] = kind

\* The provisioning run ended in an uncaught exception.
BundleCrashed == ErrLogged("Traceback")

\* The file at p in fs, if any.
FileAt(fs, p) == IF p \in DOMAIN fs THEN <<fs[p]>> ELSE <<>>

\* C1: once try_download has succeeded, the run makes no manifest check and
\* no cargo call, is at its end or about to end, ends with status 0 without
\* an uncaught exception, and the destination holds the downloaded bytes.
C1_DownloadShortCircuitsBuild ==
    bundle.downloaded = "True" =>
        /\ bundle.pc \in {"td_returned", "done"}
        /\ ~Called("manifest exists")
        /\ ~Called("cargo --version")
        /\ ~Called("cargo build")
        /\ FileAt(files, Dest) # <<>>
        /\ files[Dest].content = bundle.data
        /\ bundle.pc = "done" => (bundle.exit = 0 /\ ~BundleCrashed)

C1_Witness ==
    /\ bundle.pc = "done"
    /\ bundle.downloaded = "True"
    /\ exists(manifest_path)
    /\ files[Dest].content \in RemoteBodies

\* C2: a run whose download step failed never ends on that failure: it has
\* logged the failure and has gone on to the manifest check; and once the
\* probe has exited zero, cargo build is the next call.
C2_DownloadFailureFallsBack ==
    /\ (bundle.pc = "done" /\ Called("urlopen") /\ bundle.downloaded # "True") =>
          /\ bundle.downloaded = "False"
          /\ ErrLogged("download failed")
          /\ Called("manifest exists")
    /\ (bundle.downloaded = "False" /\ exists(manifest_path) /\ bundle.probe = "zero"
          /\ bundle.pc # "build") => Called("cargo build")

C2_Witness ==
    /\ bundle.downloaded = "False"
    /\ \E i \in DOMAIN bundle.stderr : bundle.stderr[i] = <<"download failed", "HTTPError">>
    /\ bundle.probe = "zero"
    /\ Called("cargo build")

\* C3: a run whose download failed and that found no manifest or no
\* invocable toolchain ends with status 0 and no uncaught exception, has not
\* invoked cargo build, and leaves the destination as it was.
C3_SkippedNotCrash ==
    (/\ bundle.pc = "done"
     /\ Called("urlopen")
     /\ bundle.downloaded # "True"
     /\ \/ ~exists(manifest_path)
        \/ bundle.probe \in {"nonzero", "FileNotFoundError", "PermissionError", "OSError"})
    => /\ bundle.exit = 0
       /\ ~BundleCrashed
       /\ ~Called("cargo build")
       /\ FileAt(files, Dest) = FileAt(bundle.files0, Dest)

\* C4: after a failed download attempt the destination holds no file that
\* the attempt wrote in part.
C4_NoPartialFileAfterFailedDownload ==
    bundle.downloaded = "False" =>
        ~(/\ Called("write_bytes")
          /\ FileAt(files, Dest) # <<>>
          /\ FileAt(files, Dest) # FileAt(bundle.files0, Dest)
          /\ files[Dest].content \in ProperPrefixes(bundle.data))

\* The wrapper run was reached by an interrupt.
Interrupted == viewer.interrupted_at # None

\* The wrapper run raised an exception of this class.
Raised(class) == viewer.exc # <<>> /\ viewer.exc[1] = class

\* What the caller of the wrapper observes of a finished run: the exit
\* status and what the wrapper itself wrote on the error stream.
Outcome == <<viewer.exit, viewer.stderr>>

\* C5 as stated: whatever code the child exited with, the wrapper exits only
\* after the child has terminated, with that code and no message of its own.
C5_ExitCodePropagated ==
    viewer.pc = "done" =>
        /\ child.state # "running"
        /\ child.state = "exited" => Outcome = <<child.code, <<>>>>

\* C5 amended: the same, for a run that no interrupt reached.
C5_ExitCodePropagatedUnlessInterrupted ==
    viewer.pc = "done" =>
        /\ child.state # "running"
        /\ (child.state = "exited" /\ ~Interrupted) => Outcome = <<child.code, <<>>>>

C5_Witness ==
    /\ viewer.pc = "done"
    /\ ~Interrupted
    /\ child = [state |-> "exited", code |-> 3]
    /\ viewer.exit = 3

\* C6: a run that an interrupt reached while it waited on the child ends
\* with status 130, whether the child had exited by then or not.
C6_InterruptYields130 ==
    (viewer.pc = "done" /\ viewer.interrupted_at = "wait") => viewer.exit = 130

C6_Witness ==
    /\ viewer.pc = "done"
    /\ viewer.interrupted_at = "wait"
    /\ viewer.child_at_interrupt = "exited"
    /\ child = [state |-> "exited", code |-> 3]
    /\ viewer.exit = 130

\* The documented lookup, on the lowercased host strings.
DocumentedOS(os) ==
    CASE os = <<"d","a","r","w","i","n">> -> "darwin"
      [] os = <<"l","i","n","u","x">> -> "linux"
      [] os = <<"w","i","n","d","o","w","s">> -> "win32"
      [] OTHER -> "unsupported"

DocumentedArch(arch) ==
    CASE arch \in { <<"x","8","6","_","6","4">>, <<"a","m","d","6","4">> } -> "x64"
      [] arch \in { <<"a","r","m","6","4">>, <<"a","a","r","c","h","6","4">> } -> "arm64"
      [] OTHER -> "unsupported"

HostSupported ==
    /\ DocumentedOS(lower(raw_system)) # "unsupported"
    /\ DocumentedArch(lower(raw_machine)) # "unsupported"

\* The wrapper run has been through the lookup of find_binary.
ViewerIdentified ==
    /\ viewer.pc \notin {"idle", "find_binary"}
    /\ ~(Raised("KeyboardInterrupt") /\ viewer.interrupted_at = "find_binary")

\* C7: in both programs the identifier of a supported host is the documented
\* pair, and on any other host the lookup ends in the unsupported-platform
\* failure with no identifier.
C7_PlatformLookup ==
    /\ bundle.pc \notin {"idle", "identify"} =>
          IF HostSupported
          THEN /\ bundle.mapped_platform = DocumentedOS(lower(raw_system))
               /\ bundle.mapped_arch = DocumentedArch(lower(raw_machine))
          ELSE /\ bundle.pc = "done"
               /\ bundle.exit = 1
               /\ ErrLogged("unsupported platform")
               /\ bundle.mapped_platform = None
               /\ bundle.mapped_arch = None
               /\ bundle.calls = <<>>
    /\ ViewerIdentified =>
          IF HostSupported
          THEN /\ viewer.mapped_platform = DocumentedOS(lower(raw_system))
               /\ viewer.mapped_arch = DocumentedArch(lower(raw_machine))
          ELSE /\ Raised("RuntimeError")
               /\ viewer.exc[2][1] = "Unsupported platform"
               /\ viewer.mapped_platform = None
               /\ viewer.mapped_arch = None
               /\ viewer.spawned = <<>>

C7_Witness ==
    /\ raw_system = <<"W","i","n","d","o","w","s">>
    /\ raw_machine = <<"A","M","D","6","4">>
    /\ bundle.pc = "done"
    /\ bundle.mapped_platform = "win32"
    /\ bundle.mapped_arch = "x64"
    /\ viewer.pc = "done"
    /\ viewer.mapped_platform = "win32"

C7_WitnessUnsupported ==
    /\ raw_system = <<"L","i","n","u","x">>
    /\ raw_machine = <<"i","3","8","6">>
    /\ bundle.pc = "done"
    /\ bundle.exit = 1
    /\ viewer.pc = "done"
    /\ Raised("RuntimeError")

\* C8: every spawn the wrapper attempted was on a path that held a file with
\* the executable mark (win32, which has no such mark, left aside).
C8_SpawnOnlyExecutable ==
    \A i \in DOMAIN viewer.spawned :
        /\ viewer.spawned[i].present
        /\ viewer.spawned[i].exec \/ viewer.mapped_platform = "win32"

\* The outcomes of runs whose child exited with a non-zero code.
NonZeroExitOutcomes == { <<ExitStatus(c), <<>>>> : c \in ChildCodes \ {0} }

\* C9: a run that failed to resolve or to spawn the binary has an outcome
\* that no run with a child that exited non-zero has: the latter's outcomes
\* are the child's code with nothing written by the wrapper, the former's
\* carry the wrapper's message.
C9_LaunchFailureDistinct ==
    viewer.pc = "done" =>
        /\ (viewer.exc # <<>> /\ ~Raised("KeyboardInterrupt")) =>
              Outcome \notin NonZeroExitOutcomes
        /\ (viewer.exc = <<>> /\ child.state = "exited" /\ child.code # 0) =>
              Outcome \in NonZeroExitOutcomes

C9_Witness ==
    /\ viewer.pc = "done"
    /\ Raised("PermissionError")
    /\ viewer.spawned # <<>>
    /\ viewer.exit = 1

\* The state part of C10: the exit status after a build that exited with a
\* non-zero code is that code, and after a build without the expected output
\* it is 1, with the message that names target/release/<binary-name>.  (A
\* build that a signal killed has no exit code; the run then ends too.)
C10_BuildFailureStatus ==
    (bundle.pc = "done" /\ Called("cargo build")) =>
        /\ bundle.returncode > 0 => bundle.exit = bundle.returncode
        /\ bundle.returncode # 0 =>
              /\ bundle.calls[Len(bundle.calls)] = "cargo build"
              /\ ErrLogged("cargo build failed")
        /\ (bundle.returncode = 0 /\ bundle.calls[Len(bundle.calls)] = "source exists") =>
              /\ bundle.exit = 1
              /\ bundle.stderr[Len(bundle.stderr)] =
                    << "expected binary at",
                       << "root", "log-viewer", "target", "release",
                          IF bundle.mapped_platform = "win32"
                          THEN "smooai-log-viewer.exe" ELSE "smooai-log-viewer" >>,
                       "but none was found" >>
              /\ FileAt(files, bundle.stderr[Len(bundle.stderr)][2]) = <<>>

\* The step part of C10: no step from the manifest check to the check of the
\* build's output changes the file at the destination.
C10_BuildStepsLeaveDest ==
    bundle.pc \in {"manifest", "probe", "build", "check_output"} =>
        FileAt(files', Dest) = FileAt(files, Dest)

\* C10: a failed build ends the run with the build's exit code, a build
\* without its expected output ends it with 1 and a message naming the
\* expected path, and in both cases the destination is not touched.
C10_BuildFailure == []C10_BuildFailureStatus /\ [][C10_BuildStepsLeaveDest]_vars

C10_Witness ==
    /\ bundle.pc = "done"
    /\ Called("cargo build")
    /\ bundle.returncode = 101
    /\ bundle.exit = 101

C10_WitnessMissingOutput ==
    /\ bundle.pc = "done"
    /\ Called("source exists")
    /\ bundle.calls[Len(bundle.calls)] = "source exists"
    /\ bundle.returncode = 0
    /\ bundle.exit = 1

\* The provisioning run reported success: its last message on the output
\* stream is the one of the download branch or the one of the build branch.
ReportedSuccess ==
    /\ bundle.pc = "done"
    /\ bundle.stdout # <<>>
    /\ bundle.stdout[Len(bundle.stdout)][1] \in
          {"downloaded pre-built binary to", "built and packaged"}

\* The regular files inside the destination directory of the identifier.
ArtifactsInDestDir ==
    { p \in DOMAIN files :
        Parent(p) = dest_dir(bundle.mapped_platform, bundle.mapped_arch) }

\* What the run acquired: the response body, or the binary cargo built.
Acquired ==
    IF bundle.downloaded = "True"
    THEN bundle.data
    ELSE files[source_binary(bundle.mapped_platform)].content

\* C11: after a second provisioning run on the host, a run that reported
\* success leaves exactly one artifact in the destination directory, holding
\* exactly what that run acquired, and a run whose download failed and that
\* did not report success leaves no file (stale or partial) at the
\* destination.
C11_Idempotent ==
    (bundle.pc = "done" /\ bundle.run >= 2 /\ viewer.run = 0 /\ HostSupported) =>
        /\ ReportedSuccess =>
              /\ ArtifactsInDestDir = {Dest}
              /\ files[Dest].content = Acquired
        /\ (~ReportedSuccess /\ bundle.downloaded = "False") =>
              FileAt(files, Dest) = <<>>

\* The path the locator is documented to use on the host:
\* <package-root>/log-viewer/<os>-<arch>/<binary-name>.
DocumentedPath ==
    << "root", "python", "log-viewer",
       DocumentedOS(lower(raw_system)) \o "-" \o DocumentedArch(lower(raw_machine)),
       IF DocumentedOS(lower(raw_system)) = "win32"
       THEN "smooai-log-viewer.exe" ELSE "smooai-log-viewer" >>

\* The state part of C12: on a supported host find_binary has returned the
\* documented path when a file is there, and has otherwise raised the error
\* that names that path (as long as no provisioning run started after the
\* wrapper run, the files are those that find_binary saw).
C12_LocateResult ==
    (ViewerIdentified /\ HostSupported /\ viewer.run > bundle.run) =>
        IF FileAt(files, DocumentedPath) # <<>>
        THEN /\ viewer.binary_path = DocumentedPath
             /\ ~Raised("RuntimeError")
        ELSE /\ Raised("RuntimeError")
             /\ viewer.exc[2][1] = "No binary found"
             /\ viewer.exc[2][4] = DocumentedPath
             /\ viewer.binary_path = <<>>
             /\ viewer.spawned = <<>>

\* The step part of C12: no step of a wrapper run, from its start to its
\* exit, changes a file or a directory, and none starts a provisioning run.
C12_WrapperReadOnly ==
    (viewer.pc \notin {"idle", "done"} \/ viewer'.pc \notin {"idle", "done"}) =>
        /\ files' = files
        /\ dirs' = dirs
        /\ bundle' = bundle

\* C12: find_binary returns exactly <package-root>/log-viewer/<os>-<arch>/
\* <binary-name> when a file is there and otherwise fails naming that path,
\* and a wrapper run never downloads, builds, creates or modifies anything.
C12_LocateReadOnly == []C12_LocateResult /\ [][C12_WrapperReadOnly]_vars

C12_Witness ==
    /\ viewer.pc = "done"
    /\ HostSupported
    /\ Raised("RuntimeError")
    /\ viewer.exc[2][4] = DocumentedPath
    /\ FileAt(files, DocumentedPath) = <<>>
    /\ bundle.pc = "done"
    /\ bundle.run < viewer.run

C12_WitnessFound ==
    /\ viewer.pc = "done"
    /\ viewer.binary_path = DocumentedPath
    /\ FileAt(files, DocumentedPath) # <<>>

\* C13: a provisioning run that reported success has left a file at the
\* destination whose content is exactly what its strategy acquired (the
\* response body, or the built binary); on a non-win32 identifier the file
\* carries the executable mark, and on win32 the run made no chmod call.
C13_SuccessMeansArtifact ==
    ReportedSuccess =>
        /\ FileAt(files, Dest) # <<>>
        /\ Dest = DocumentedPath
        /\ bundle.downloaded = "True" =>
              (files[Dest].content = bundle.data /\ bundle.data \in RemoteBodies)
        /\ bundle.downloaded # "True" =>
              /\ FileAt(files, source_binary(bundle.mapped_platform)) # <<>>
              /\ files[Dest].content = files[source_binary(bundle.mapped_platform)].content
        /\ bundle.mapped_platform # "win32" => files[Dest].exec
        /\ bundle.mapped_platform = "win32" => ~Called("chmod")

C13_Witness ==
    /\ ReportedSuccess
    /\ bundle.downloaded = "True"
    /\ bundle.mapped_platform = "darwin"
    /\ bundle.files0 = <<>>
    /\ files[Dest] = File(Bytes("r"), TRUE)

C13_WitnessBuilt ==
    /\ ReportedSuccess
    /\ bundle.downloaded = "False"
    /\ bundle.mapped_platform = "win32"
    /\ files[Dest].content = BuiltBinary

\* C14: a finished wrapper run ended in one of three ways: with 130 after
\* an interrupt; with 1 and a message on the error stream after a resolution
\* or launch error; or with the exit code of its child and no message.
C14_ExitCodeCases ==
    viewer.pc = "done" =>
        \/ /\ Interrupted
           /\ viewer.exit = 130
        \/ /\ ~Interrupted
           /\ viewer.exc # <<>>
           /\ viewer.exit = 1
           /\ viewer.stderr # <<>>
        \/ /\ ~Interrupted
           /\ viewer.exc = <<>>
           /\ child.state = "exited"
           /\ Outcome = <<child.code, <<>>>>

\* C17: when a signal killed the child and no interrupt reached the wrapper,
\* the wrapper exits with 128 plus the number of the signal.
C17_SignalPropagated ==
    (viewer.pc = "done" /\ child.state = "signaled" /\ ~Interrupted) =>
        viewer.exit = 128 + child.code

\* The path the wrapper run looked at: the one it found, or the one its
\* error names.
ViewerCheckedPath ==
    IF Raised("RuntimeError") /\ viewer.exc[2][1] = "No binary found"
    THEN viewer.exc[2][4]
    ELSE viewer.binary_path

\* C15: on a supported host the path find_binary checks is the destination
\* the provisioning script writes, and a wrapper run that follows a
\* provisioning run that reported success finds the binary there.
C15_ProvisionAndLocateAgree ==
    (ViewerIdentified /\ HostSupported) =>
        /\ ViewerCheckedPath = dest_binary(DocumentedOS(lower(raw_system)),
                                           DocumentedArch(lower(raw_machine)))
        /\ bundle.mapped_platform # None => ViewerCheckedPath = Dest
        /\ (ReportedSuccess /\ viewer.run > bundle.run) =>
              /\ ~Raised("RuntimeError")
              /\ viewer.binary_path = Dest
              /\ viewer.pc \in {"spawn", "wait", "sys_exit", "except", "done"}

C15_Witness ==
    /\ ReportedSuccess
    /\ viewer.run > bundle.run
    /\ viewer.pc = "done"
    /\ viewer.binary_path = Dest
    /\ child.state = "exited"

\* The order in which a provisioning run can make its calls.
CanonicalOrder ==
    << "urlopen", "mkdir", "write_bytes", "chmod", "manifest exists",
       "cargo --version", "cargo build", "source exists", "mkdir", "copy2", "chmod" >>

RECURSIVE IsSubsequence(_, _)
IsSubsequence(a, b) ==
    IF a = <<>> THEN TRUE
    ELSE IF b = <<>> THEN FALSE
    ELSE IF Head(a) = Head(b) THEN IsSubsequence(Tail(a), Tail(b))
    ELSE IsSubsequence(a, Tail(b))

\* C16: the calls of a provisioning run follow the fixed order; cargo build
\* is called at most once, and directly after a zero probe that directly
\* followed the manifest check, on a supported host, after the download was
\* attempted and failed and with the manifest present; on an unsupported
\* host the run has exited 1 without any call or change to the files.
C16_StepOrder ==
    /\ IsSubsequence(bundle.calls, CanonicalOrder)
    /\ Cardinality({ i \in DOMAIN bundle.calls : bundle.calls[i] = "cargo build" }) <= 1
    /\ \A b \in DOMAIN bundle.calls :
          bundle.calls[b] = "cargo build" =>
             /\ HostSupported
             /\ bundle.mapped_platform # None /\ bundle.mapped_arch # None
             /\ b >= 4
             /\ bundle.calls[1] = "urlopen"
             /\ bundle.downloaded = "False"
             /\ bundle.calls[b - 2] = "manifest exists"
             /\ exists(manifest_path)
             /\ bundle.calls[b - 1] = "cargo --version"
             /\ bundle.probe = "zero"
    /\ (~HostSupported /\ bundle.pc \notin {"idle", "identify"}) =>
          /\ bundle.pc = "done"
          /\ bundle.exit = 1
          /\ bundle.calls = <<>>
          /\ files = bundle.files0

C16_Witness ==
    /\ bundle.pc = "done"
    /\ bundle.calls = << "urlopen", "mkdir", "write_bytes", "chmod", "manifest exists",
                         "cargo --version", "cargo build", "source exists", "mkdir",
                         "copy2", "chmod" >>

C16_WitnessUnsupported ==
    /\ ~HostSupported
    /\ bundle.pc = "done"
    /\ bundle.exit = 1

====
